---- MODULE Spec2Model ----
(***************************************************************************)
(* Bootstrap orchestrator of n8n-desktop: the effect of src/src/App.tsx    *)
(* (useEffect, lines 44-202): the async function init, the two event       *)
(* listeners, the health-poll interval, the grace and deadline timeouts,   *)
(* the effect cleanup and the retry button.                                *)
(*                                                                         *)
(* One action is one run-to-completion step of the JavaScript event loop:  *)
(* a continuation of init from one await to the next, one listener call,   *)
(* one timer callback up to its first await, or the settling of one        *)
(* pending invoke.  Time is in milliseconds.  A timer is a sequence that   *)
(* is empty when the timer is not armed and holds the time left otherwise; *)
(* time never passes beyond the moment an armed timer is due, and two      *)
(* timers due at the same moment fire in either order.                     *)
(*                                                                         *)
(* The render of lines 217-219 (status "ready" assigns window.location) is *)
(* not a step of the model: the page stays alive until the navigation      *)
(* commits, so callbacks may still run after Ready.  State setters called  *)
(* after the cleanup are modelled as taking effect, as they do when the    *)
(* cleanup runs because the dependency t changed.                          *)
(***************************************************************************)
EXTENDS Integers, Sequences, FiniteSets, TLC

(* ------------------------------ constants ------------------------------ *)

MAX_RETRIES == 5
PROGRESS_DEBOUNCE_MS == 100
VERIFY_MAX_ATTEMPTS == 5
VERIFY_DELAY_MS == 1000
POLL_INTERVAL_MS == 2000
GRACE_MS == 2000
DEADLINE_MS == 60000

\* The most invocations of proxy_health_check pending at the same time.
MaxInFlight == 2

\* t("errors.timeout"), t("errors.startup_timeout"), and the message of the
\* Error thrown at line 141 after err.toString().
TimeoutMsg == "errors.timeout"
StartupTimeoutMsg == "errors.startup_timeout"
VerifyFailedMsg == "Error: downloaded but not correctly installed (verification failed)"

\* err.toString() of a rejected invoke.
SetupRuntimeErr == "setup_runtime failed"
SetupN8nErr == "setup_n8n failed"
LaunchErr == "launch_n8n failed"

\* The value of `status` the effect closure captured: the effect runs once,
\* in the first render, where status is the useState initial value.
capturedStatus == "checking"

\* The download_type values the backend tags its events with.
DownloadTypes == {"runtime", "n8n-core"}

\* Payload.progress of a download-progress event, in halves of a percent
\* (59 is 29.5, 201 is 100.5), so that Math.round has something to round.
ProgressPayloads == {59, 120, 200, 201}

\* Bodies proxy_health_check resolves with, as sequences of characters.
ProbeBodies ==
    { <<"H","e","a","l","t","h","y">>,
      <<"R","E","A","D","Y">>,
      <<"H","T","T","P"," ","2","0","0">>,
      <<"d","o","w","n">> }

\* A settled proxy_health_check: resolved with a body, or rejected.
ProbeOutcomes ==
    [rejected : {FALSE}, body : ProbeBodies] \cup [rejected : {TRUE}, body : {<< >>}]

(* ------------------------------- helpers ------------------------------- *)

\* Math.round on a value given in halves: floor(x + 0.5).
MathRound(h) == (h + 1) \div 2

LowerChar(c) ==
    CASE c = "A" -> "a" [] c = "D" -> "d" [] c = "E" -> "e" [] c = "H" -> "h"
      [] c = "L" -> "l" [] c = "P" -> "p" [] c = "R" -> "r" [] c = "T" -> "t"
      [] c = "Y" -> "y" [] OTHER -> c

toLowerCase(s) == [i \in DOMAIN s |-> LowerChar(s[i])]

includes(s, sub) ==
    \E i \in 0..(Len(s) - Len(sub)) : SubSeq(s, i + 1, i + Len(sub)) = sub

Min(S) == CHOOSE x \in S : \A y \in S : x <= y

\* The sequence s without its i-th element.
RemoveAt(s, i) == SubSeq(s, 1, i - 1) \o SubSeq(s, i + 1, Len(s))

\* checkHealthViaProxy: true iff the invoke resolved with a body that
\* contains "healthy" or "ready" in any case, or "200"; false when it rejects.
checkHealthViaProxy_catchTrue(o) ==
    IF o.rejected THEN TRUE
    ELSE \/ includes(toLowerCase(o.body), <<"h","e","a","l","t","h","y">>)
         \/ includes(toLowerCase(o.body), <<"r","e","a","d","y">>)
         \/ includes(o.body, <<"2","0","0">>)

checkHealthViaProxy(o) ==
    IF o.rejected THEN FALSE
    ELSE \/ includes(toLowerCase(o.body), <<"h","e","a","l","t","h","y">>)
         \/ includes(toLowerCase(o.body), <<"r","e","a","d","y">>)
         \/ includes(o.body, <<"2","0","0">>)

(* ------------------------------ variables ------------------------------ *)

VARIABLES
    status, progress, errorMsg,          \* React state (lines 18-20)
    pc, attempts,                        \* position of init, its loop counter
    progressListener, extractionListener,\* "none" | "on" | "off"
    checkTimer,                          \* TRUE iff checkTimer is not null
    retryCount, currentDownloadType,
    lastProgressAge,                     \* Date.now() - lastProgressUpdate, capped
    pollTimer, deadlineTimer, graceTimers, sleepTimer,
    inflight,                            \* pending proxy_health_check invokes
    disposed,                            \* the effect cleanup has run
    \* history, read by the properties only
    lastOp, firstInstalled, calls, verifyQueries, verifyAnswers, sinceFalse,
    exhaustCount, healthySeen, deadlineFired,
    sinceHealthy,                        \* time since the first probe found ready
    readyEntered,                        \* a grace timeout has run
    lastAppliedAge,                      \* time since a percent was last applied
    setupRuntimeReturned,                \* invoke("setup_runtime") has resolved
    launchReturned,                      \* invoke("launch_n8n") has resolved
    lastProbe                            \* how the last settled probe ended

reactVars == <<status, progress, errorMsg>>
initVars == <<pc, attempts>>
listenerVars == <<progressListener, extractionListener>>
closureVars == <<checkTimer, retryCount, currentDownloadType, lastProgressAge>>
timerVars == <<pollTimer, deadlineTimer, graceTimers, sleepTimer>>
envVars == <<inflight, disposed>>
histVars == <<firstInstalled, calls, verifyQueries, verifyAnswers, sinceFalse,
              exhaustCount, healthySeen, deadlineFired>>

timingVars == <<sinceHealthy, readyEntered, lastAppliedAge>>

\* The cap of the clock sinceHealthy: beyond the grace delay.
HealthyClockCap == GRACE_MS + POLL_INTERVAL_MS

\* History of the awaited calls of init and of the probes.
traceVars == <<setupRuntimeReturned, launchReturned, lastProbe>>

vars == <<reactVars, initVars, listenerVars, closureVars, timerVars, envVars,
          lastOp, histVars, timingVars, traceVars>>

Init ==
    /\ status = "checking" /\ progress = 0 /\ errorMsg = ""
    /\ pc = "listen_progress" /\ attempts = 0
    /\ progressListener = "none" /\ extractionListener = "none"
    /\ checkTimer = FALSE /\ retryCount = 0 /\ currentDownloadType = ""
    /\ lastProgressAge = PROGRESS_DEBOUNCE_MS
    /\ pollTimer = << >> /\ deadlineTimer = << >> /\ graceTimers = << >>
    /\ sleepTimer = << >>
    /\ inflight = 0 /\ disposed = FALSE
    /\ lastOp = "mount"
    /\ firstInstalled = "none"
    /\ calls = [setup_runtime |-> 0, setup_n8n |-> 0, launch_n8n |-> 0]
    /\ verifyQueries = 0 /\ verifyAnswers = << >> /\ sinceFalse = VERIFY_DELAY_MS
    /\ exhaustCount = 0 /\ healthySeen = FALSE /\ deadlineFired = FALSE
    /\ sinceHealthy = HealthyClockCap /\ readyEntered = FALSE
    /\ lastAppliedAge = PROGRESS_DEBOUNCE_MS
    /\ setupRuntimeReturned = FALSE /\ launchReturned = FALSE
    /\ lastProbe = "none"

(* ------------------------- pieces of the handlers ---------------------- *)

\* Lines 63 and 92: an event is handled only if its download_type is the
\* current one.
kindMatches_always(download_type) == TRUE

kindMatches(download_type) == download_type = currentDownloadType

\* Line 69: now - lastProgressUpdate < PROGRESS_DEBOUNCE_MS.
debounced == lastProgressAge < PROGRESS_DEBOUNCE_MS

\* Lines 75-82: the updater given to setProgress.
progressUpdater_noGuard(prev, roundedProgress) == roundedProgress

progressUpdater(prev, roundedProgress) ==
    IF roundedProgress >= prev \/ roundedProgress = 100
    THEN roundedProgress
    ELSE prev

\* Line 97: only the extraction of n8n-core is shown as a state.
showsExtracting_any(download_type) == TRUE

showsExtracting(download_type) == download_type = "n8n-core"

\* Lines 106 and 116: setProgress(0) at the start of a download stage.
STAGE_START_PERCENT == 0

stageStartPercent_keep == progress

stageStartPercent == STAGE_START_PERCENT

\* Lines 187-191 with the stage started over instead of ending init.
Catch_restart(msg) ==
    /\ errorMsg' = msg
    /\ status' = "error"
    /\ pc' = "listen_extraction"

\* Line 114: if (!installed).
needsDownload_never(installed) == FALSE

needsDownload_always(installed) == TRUE

needsDownload(installed) == ~installed

\* Line 132: while (!checkInstalled && attempts < 5).
verifyLoopCond_offByOne(checkInstalled, n) ==
    ~checkInstalled /\ n <= VERIFY_MAX_ATTEMPTS

verifyLoopCond(checkInstalled, n) ==
    ~checkInstalled /\ n < VERIFY_MAX_ATTEMPTS

\* Line 140: if (!checkInstalled) throw.
verificationFailed_never(checkInstalled) == FALSE

verificationFailed(checkInstalled) == ~checkInstalled

\* Line 164: retryCount >= MAX_RETRIES.
retriesExhausted(n) == n >= MAX_RETRIES

\* Line 180: status !== "ready" && checkTimer, with the status of the closure.
deadlineGuard == capturedStatus # "ready" /\ checkTimer

\* Lines 187-191: the catch block of init.
Catch(msg) ==
    /\ errorMsg' = msg
    /\ status' = "error"
    /\ pc' = "done"

\* Lines 145-147: setStatus("starting"); invoke("launch_n8n").
StartLaunch ==
    /\ status' = "starting"
    /\ pc' = "launch_n8n"
    /\ calls' = [calls EXCEPT !.launch_n8n = @ + 1]

(* --------------------------------- init -------------------------------- *)

\* Lines 59-85: listen("download-progress", ...) resolves.
ListenProgressResolved ==
    /\ pc = "listen_progress"
    /\ progressListener' = "on"
    /\ pc' = "listen_extraction"
    /\ lastOp' = "listen_progress"
    /\ UNCHANGED <<reactVars, attempts, extractionListener, closureVars,
                   timerVars, envVars, histVars>>
    /\ UNCHANGED timingVars
    /\ UNCHANGED traceVars

\* Lines 88-108: listen("extraction-start", ...) resolves; the runtime stage
\* begins and setup_runtime is invoked.
ListenExtractionResolved ==
    /\ pc = "listen_extraction"
    /\ extractionListener' = "on"
    /\ status' = "preparing_engine"
    /\ progress' = stageStartPercent
    /\ currentDownloadType' = "runtime"
    /\ calls' = [calls EXCEPT !.setup_runtime = @ + 1]
    /\ pc' = "setup_runtime"
    /\ lastOp' = "listen_extraction"
    /\ UNCHANGED <<errorMsg, attempts, progressListener, checkTimer, retryCount,
                   lastProgressAge, timerVars, envVars, firstInstalled,
                   verifyQueries, verifyAnswers, sinceFalse, exhaustCount,
                   healthySeen, deadlineFired>>
    /\ UNCHANGED timingVars
    /\ UNCHANGED traceVars

\* Lines 108-112: setup_runtime resolves; is_installed is invoked.
SetupRuntimeResolved ==
    /\ pc = "setup_runtime"
    /\ currentDownloadType' = ""
    /\ pc' = "is_installed"
    /\ lastOp' = "setup_runtime_ok"
    /\ UNCHANGED <<reactVars, attempts, listenerVars, checkTimer, retryCount,
                   lastProgressAge, timerVars, envVars, histVars>>
    /\ UNCHANGED timingVars
    /\ setupRuntimeReturned' = TRUE
    /\ UNCHANGED <<launchReturned, lastProbe>>

\* Lines 108, 187-191: setup_runtime rejects.
SetupRuntimeRejected ==
    /\ pc = "setup_runtime"
    /\ Catch(SetupRuntimeErr)
    /\ lastOp' = "setup_runtime_failed"
    /\ UNCHANGED <<progress, attempts, listenerVars, closureVars, timerVars,
                   envVars, histVars>>
    /\ UNCHANGED timingVars
    /\ UNCHANGED traceVars

\* Lines 112-118 and 145-147: the first is_installed resolves.
IsInstalledResolved(installed) ==
    /\ pc = "is_installed"
    /\ firstInstalled' = IF installed THEN "true" ELSE "false"
    /\ IF needsDownload(installed)
       THEN /\ status' = "downloading_n8n"
            /\ progress' = stageStartPercent
            /\ currentDownloadType' = "n8n-core"
            /\ calls' = [calls EXCEPT !.setup_n8n = @ + 1]
            /\ pc' = "setup_n8n"
       ELSE /\ StartLaunch
            /\ UNCHANGED <<progress, currentDownloadType>>
    /\ lastOp' = "is_installed"
    /\ UNCHANGED <<errorMsg, attempts, listenerVars, checkTimer, retryCount,
                   lastProgressAge, timerVars, envVars, verifyQueries,
                   verifyAnswers, sinceFalse, exhaustCount, healthySeen,
                   deadlineFired>>
    /\ UNCHANGED timingVars
    /\ UNCHANGED traceVars

\* Lines 118-133: setup_n8n resolves; percent is forced to 100 and the
\* verification loop is entered (attempts = 0, so its first query is made).
SetupN8nResolved ==
    /\ pc = "setup_n8n"
    /\ currentDownloadType' = ""
    /\ progress' = 100
    /\ attempts' = 0
    /\ IF verifyLoopCond(FALSE, 0)
       THEN /\ pc' = "verify_query"
            /\ verifyQueries' = verifyQueries + 1
            /\ UNCHANGED <<status, errorMsg>>
       ELSE /\ Catch(VerifyFailedMsg)
            /\ UNCHANGED verifyQueries
    /\ lastOp' = "setup_n8n_ok"
    /\ UNCHANGED <<listenerVars, checkTimer, retryCount, lastProgressAge,
                   timerVars, envVars, firstInstalled, calls, verifyAnswers,
                   sinceFalse, exhaustCount, healthySeen, deadlineFired>>
    /\ UNCHANGED timingVars
    /\ UNCHANGED traceVars

\* Lines 118, 187-191: setup_n8n rejects.
SetupN8nRejected ==
    /\ pc = "setup_n8n"
    /\ Catch(SetupN8nErr)
    /\ lastOp' = "setup_n8n_failed"
    /\ UNCHANGED <<progress, attempts, listenerVars, closureVars, timerVars,
                   envVars, histVars>>
    /\ UNCHANGED timingVars
    /\ UNCHANGED traceVars

\* Lines 133-147: a query of the verification loop resolves.  On true the loop
\* and the check of line 140 are passed and launch_n8n is invoked in the same
\* step; on false the 1000 ms timeout is started.
VerifyResolved(checkInstalled) ==
    /\ pc = "verify_query"
    /\ verifyAnswers' = Append(verifyAnswers, checkInstalled)
    /\ IF checkInstalled
       THEN /\ IF verificationFailed(checkInstalled)
               THEN Catch(VerifyFailedMsg) /\ UNCHANGED calls
               ELSE StartLaunch /\ UNCHANGED errorMsg
            /\ UNCHANGED <<sleepTimer, sinceFalse>>
            /\ lastOp' = "verify_true"
       ELSE /\ sleepTimer' = <<VERIFY_DELAY_MS>>
            /\ sinceFalse' = 0
            /\ pc' = "verify_sleep"
            /\ lastOp' = "verify_false"
            /\ UNCHANGED <<status, errorMsg, calls>>
    /\ UNCHANGED <<progress, attempts, listenerVars, closureVars, pollTimer,
                   deadlineTimer, graceTimers, envVars, firstInstalled,
                   verifyQueries, exhaustCount, healthySeen, deadlineFired>>
    /\ UNCHANGED timingVars
    /\ UNCHANGED traceVars

\* Lines 135-147: the 1000 ms timeout fires; attempts++ and the loop condition
\* is evaluated again: another query, or the loop ends with checkInstalled
\* false and line 141 throws.
VerifySleepElapsed ==
    /\ pc = "verify_sleep"
    /\ sleepTimer = <<0>>
    /\ sleepTimer' = << >>
    /\ attempts' = attempts + 1
    /\ IF verifyLoopCond(FALSE, attempts + 1)
       THEN /\ pc' = "verify_query"
            /\ verifyQueries' = verifyQueries + 1
            /\ lastOp' = "verify_requery"
            /\ UNCHANGED <<status, errorMsg, calls>>
       ELSE /\ IF verificationFailed(FALSE)
               THEN Catch(VerifyFailedMsg) /\ UNCHANGED calls
               ELSE StartLaunch /\ UNCHANGED errorMsg
            /\ lastOp' = "verify_exhausted"
            /\ UNCHANGED verifyQueries
    /\ UNCHANGED <<progress, listenerVars, closureVars, pollTimer,
                   deadlineTimer, graceTimers, envVars, firstInstalled,
                   verifyAnswers, sinceFalse, exhaustCount, healthySeen,
                   deadlineFired>>
    /\ UNCHANGED timingVars
    /\ UNCHANGED traceVars

\* Lines 147-185: launch_n8n resolves; the poll interval and the deadline
\* timeout are started and init returns.
LaunchResolved ==
    /\ pc = "launch_n8n"
    /\ checkTimer' = TRUE
    /\ pollTimer' = <<POLL_INTERVAL_MS>>
    /\ deadlineTimer' = <<DEADLINE_MS>>
    /\ pc' = "done"
    /\ lastOp' = "launch_ok"
    /\ UNCHANGED <<reactVars, attempts, listenerVars, retryCount,
                   currentDownloadType, lastProgressAge, graceTimers,
                   sleepTimer, envVars, histVars>>
    /\ UNCHANGED timingVars
    /\ launchReturned' = TRUE
    /\ UNCHANGED <<setupRuntimeReturned, lastProbe>>

\* launch_n8n rejects and the rejection is swallowed: polling starts anyway.
LaunchRejected_swallowed ==
    /\ pc = "launch_n8n"
    /\ checkTimer' = TRUE
    /\ pollTimer' = <<POLL_INTERVAL_MS>>
    /\ deadlineTimer' = <<DEADLINE_MS>>
    /\ pc' = "done"
    /\ lastOp' = "launch_failed"
    /\ UNCHANGED <<reactVars, attempts, listenerVars, retryCount,
                   currentDownloadType, lastProgressAge, graceTimers,
                   sleepTimer, envVars, histVars, timingVars>>
    /\ UNCHANGED traceVars

\* Lines 147, 187-191: launch_n8n rejects.
LaunchRejected ==
    /\ pc = "launch_n8n"
    /\ Catch(LaunchErr)
    /\ lastOp' = "launch_failed"
    /\ UNCHANGED <<progress, attempts, listenerVars, closureVars, timerVars,
                   envVars, histVars>>
    /\ UNCHANGED timingVars
    /\ UNCHANGED traceVars

(* ---------------------------- event listeners -------------------------- *)

\* Lines 59-85: the download-progress listener, for payload {progress: p (in
\* halves), download_type}.
OnDownloadProgress(p, download_type) ==
    /\ progressListener = "on"
    /\ IF ~kindMatches(download_type)
       THEN /\ lastOp' = IF download_type = "runtime"
                         THEN "progress_mismatch_runtime"
                         ELSE "progress_mismatch_core"
            /\ UNCHANGED <<progress, lastProgressAge>>
       ELSE IF debounced
       THEN /\ lastOp' = "progress_debounced"
            /\ UNCHANGED <<progress, lastProgressAge>>
       ELSE /\ progress' = progressUpdater(progress, MathRound(p))
            /\ lastProgressAge' = 0
            /\ lastOp' = IF MathRound(p) >= progress THEN "progress_applied"
                         ELSE IF MathRound(p) = 100 THEN "progress_back_to_100"
                         ELSE "progress_rejected"
    /\ UNCHANGED <<status, errorMsg, initVars, listenerVars, checkTimer,
                   retryCount, currentDownloadType, timerVars, envVars,
                   histVars>>
    /\ lastAppliedAge' = IF lastOp' \in {"progress_applied", "progress_back_to_100"}
                         THEN 0 ELSE lastAppliedAge
    /\ UNCHANGED <<sinceHealthy, readyEntered>>
    /\ UNCHANGED traceVars

\* Lines 88-102: the extraction-start listener.
OnExtractionStart(download_type) ==
    /\ extractionListener = "on"
    /\ IF ~kindMatches(download_type)
       THEN /\ lastOp' = IF download_type = "runtime"
                         THEN "extraction_mismatch_runtime"
                         ELSE "extraction_mismatch_core"
            /\ UNCHANGED status
       ELSE IF showsExtracting(download_type)
       THEN /\ status' = "extracting"
            /\ lastOp' = "extraction_core"
       ELSE /\ lastOp' = "extraction_runtime"
            /\ UNCHANGED status
    /\ UNCHANGED <<progress, errorMsg, initVars, listenerVars, closureVars,
                   timerVars, envVars, histVars>>
    /\ UNCHANGED timingVars
    /\ UNCHANGED traceVars

(* ----------------------------- health polling -------------------------- *)

\* The outcomes of proxy_health_check that report a service able to serve.
HealthyOutcomes ==
    [rejected : {FALSE}, body : ProbeBodies \ {<<"d","o","w","n">>}]

\* Lines 150-152: the interval fires; the callback invokes proxy_health_check
\* and suspends at the await.  The interval stays armed.
PollTick ==
    /\ pollTimer = <<0>>
    /\ inflight < MaxInFlight
    /\ pollTimer' = <<POLL_INTERVAL_MS>>
    /\ inflight' = inflight + 1
    /\ lastOp' = "poll_tick"
    /\ UNCHANGED <<reactVars, initVars, listenerVars, closureVars,
                   deadlineTimer, graceTimers, sleepTimer, disposed, histVars>>
    /\ UNCHANGED timingVars
    /\ UNCHANGED traceVars

\* Lines 23-42 and 152-171: a pending proxy_health_check settles with outcome
\* o and the interval callback that awaited it continues.
ProbeSettled(o) ==
    /\ inflight > 0
    /\ inflight' = inflight - 1
    /\ healthySeen' = (healthySeen \/ o \in HealthyOutcomes)
    /\ IF checkHealthViaProxy(o)
       THEN /\ pollTimer' = IF checkTimer THEN << >> ELSE pollTimer
            /\ graceTimers' = Append(graceTimers, GRACE_MS)
            /\ lastOp' = "probe_ready"
            /\ UNCHANGED <<retryCount, reactVars, exhaustCount>>
       ELSE /\ retryCount' = retryCount + 1
            /\ IF retriesExhausted(retryCount + 1)
               THEN /\ errorMsg' = TimeoutMsg
                    /\ status' = "error"
                    /\ pollTimer' = IF checkTimer THEN << >> ELSE pollTimer
                    /\ exhaustCount' = exhaustCount + 1
                    /\ lastOp' = "probe_exhausted"
                    /\ UNCHANGED progress
               ELSE /\ lastOp' = "probe_failed"
                    /\ UNCHANGED <<reactVars, pollTimer, exhaustCount>>
            /\ UNCHANGED graceTimers
    /\ UNCHANGED <<initVars, listenerVars, checkTimer, currentDownloadType,
                   lastProgressAge, deadlineTimer, sleepTimer, disposed,
                   firstInstalled, calls, verifyQueries, verifyAnswers,
                   sinceFalse, deadlineFired>>
    /\ sinceHealthy' = IF checkHealthViaProxy(o) /\ graceTimers = << >> /\ ~readyEntered
                       THEN 0 ELSE sinceHealthy
    /\ UNCHANGED <<readyEntered, lastAppliedAge>>
    /\ lastProbe' = IF o.rejected THEN "rejected" ELSE "resolved"
    /\ UNCHANGED <<setupRuntimeReturned, launchReturned>>

\* Lines 159-161: a grace timeout fires.
GraceFired(i) ==
    /\ i \in DOMAIN graceTimers
    /\ graceTimers[i] = 0
    /\ graceTimers' = RemoveAt(graceTimers, i)
    /\ status' = "ready"
    /\ lastOp' = "grace"
    /\ UNCHANGED <<progress, errorMsg, initVars, listenerVars, closureVars,
                   pollTimer, deadlineTimer, sleepTimer, envVars, histVars>>
    /\ readyEntered' = TRUE
    /\ UNCHANGED <<sinceHealthy, lastAppliedAge>>
    /\ UNCHANGED traceVars

\* Lines 179-185: the deadline timeout fires.
DeadlineFired ==
    /\ deadlineTimer = <<0>>
    /\ deadlineTimer' = << >>
    /\ deadlineFired' = TRUE
    /\ IF deadlineGuard
       THEN /\ errorMsg' = StartupTimeoutMsg
            /\ status' = "error"
            /\ pollTimer' = << >>
       ELSE UNCHANGED <<errorMsg, status, pollTimer>>
    /\ lastOp' = "deadline"
    /\ UNCHANGED <<progress, initVars, listenerVars, closureVars, graceTimers,
                   sleepTimer, envVars, firstInstalled, calls, verifyQueries,
                   verifyAnswers, sinceFalse, exhaustCount, healthySeen>>
    /\ UNCHANGED timingVars
    /\ UNCHANGED traceVars

(* ------------------------- cleanup, retry and time --------------------- *)

\* Lines 197-201: the cleanup of the effect.
Teardown ==
    /\ ~disposed
    /\ disposed' = TRUE
    /\ progressListener' = IF progressListener = "on" THEN "off" ELSE progressListener
    /\ extractionListener' =
           IF extractionListener = "on" THEN "off" ELSE extractionListener
    /\ pollTimer' = IF checkTimer THEN << >> ELSE pollTimer
    /\ lastOp' = "teardown"
    /\ UNCHANGED <<reactVars, initVars, closureVars, deadlineTimer,
                   graceTimers, sleepTimer, inflight, histVars>>
    /\ UNCHANGED timingVars
    /\ UNCHANGED traceVars

\* Lines 248-254: the retry button, shown in the error state: the page is
\* reloaded, which ends every timer and listener and mounts the app afresh.
Retry ==
    /\ status = "error"
    /\ status' = "checking" /\ progress' = 0 /\ errorMsg' = ""
    /\ pc' = "listen_progress" /\ attempts' = 0
    /\ progressListener' = "none" /\ extractionListener' = "none"
    /\ checkTimer' = FALSE /\ retryCount' = 0 /\ currentDownloadType' = ""
    /\ lastProgressAge' = PROGRESS_DEBOUNCE_MS
    /\ pollTimer' = << >> /\ deadlineTimer' = << >> /\ graceTimers' = << >>
    /\ sleepTimer' = << >>
    /\ inflight' = 0 /\ disposed' = FALSE
    /\ lastOp' = "mount"
    /\ firstInstalled' = "none"
    /\ calls' = [setup_runtime |-> 0, setup_n8n |-> 0, launch_n8n |-> 0]
    /\ verifyQueries' = 0 /\ verifyAnswers' = << >> /\ sinceFalse' = VERIFY_DELAY_MS
    /\ exhaustCount' = 0 /\ healthySeen' = FALSE /\ deadlineFired' = FALSE
    /\ sinceHealthy' = HealthyClockCap /\ readyEntered' = FALSE
    /\ lastAppliedAge' = PROGRESS_DEBOUNCE_MS
    /\ setupRuntimeReturned' = FALSE /\ launchReturned' = FALSE
    /\ lastProbe' = "none"

\* The times left of the armed timers.
Range(s) == {s[i] : i \in DOMAIN s}

TimesLeft ==
    Range(pollTimer) \cup Range(deadlineTimer) \cup Range(graceTimers)
        \cup Range(sleepTimer)

\* The amounts by which time may pass in one step: up to the moment the next
\* timer is due, or by one debounce window while that window is still open.
TickSteps ==
    (IF TimesLeft # {} THEN {Min(TimesLeft)} ELSE {})
        \cup (IF debounced THEN {PROGRESS_DEBOUNCE_MS} ELSE {})

Elapse(s, d) == [i \in DOMAIN s |-> s[i] - d]

Capped(x, cap) == IF x > cap THEN cap ELSE x

\* Time passes by d milliseconds; no timer is overrun.
Tick(d) ==
    /\ d > 0
    /\ \A l \in TimesLeft : d <= l
    /\ pollTimer' = Elapse(pollTimer, d)
    /\ deadlineTimer' = Elapse(deadlineTimer, d)
    /\ graceTimers' = Elapse(graceTimers, d)
    /\ sleepTimer' = Elapse(sleepTimer, d)
    /\ lastProgressAge' = Capped(lastProgressAge + d, PROGRESS_DEBOUNCE_MS)
    /\ sinceFalse' = Capped(sinceFalse + d, VERIFY_DELAY_MS)
    /\ lastOp' = "tick"
    /\ UNCHANGED <<reactVars, initVars, listenerVars, checkTimer, retryCount,
                   currentDownloadType, envVars, firstInstalled, calls,
                   verifyQueries, verifyAnswers, exhaustCount, healthySeen,
                   deadlineFired>>
    /\ sinceHealthy' = Capped(sinceHealthy + d, HealthyClockCap)
    /\ lastAppliedAge' = Capped(lastAppliedAge + d, PROGRESS_DEBOUNCE_MS)
    /\ UNCHANGED readyEntered
    /\ UNCHANGED traceVars

(* ----------------------------- specifications -------------------------- *)

\* The steps of one bootstrap attempt that is neither abandoned nor restarted.
Run ==
    \/ ListenProgressResolved
    \/ ListenExtractionResolved
    \/ SetupRuntimeResolved
    \/ SetupRuntimeRejected
    \/ \E installed \in BOOLEAN : IsInstalledResolved(installed)
    \/ SetupN8nResolved
    \/ SetupN8nRejected
    \/ \E checkInstalled \in BOOLEAN : VerifyResolved(checkInstalled)
    \/ VerifySleepElapsed
    \/ LaunchResolved
    \/ LaunchRejected
    \/ \E p \in ProgressPayloads, k \in DownloadTypes : OnDownloadProgress(p, k)
    \/ \E k \in DownloadTypes : OnExtractionStart(k)
    \/ PollTick
    \/ \E o \in ProbeOutcomes : ProbeSettled(o)
    \/ \E i \in 1..MaxInFlight : GraceFired(i)
    \/ DeadlineFired
    \/ \E d \in TickSteps : Tick(d)

Next ==
    \/ Run
    \/ Teardown
    \/ Retry

Spec == Init /\ [][Next]_vars

\* An attempt that runs on: the browser fires every timer that is due, time
\* passes, and every pending proxy_health_check settles (a poll tick that
\* would exceed MaxInFlight pending invokes waits for one of them).
LiveSpec ==
    /\ Init
    /\ [][Run]_vars
    /\ WF_vars(\E d \in TickSteps : Tick(d))
    /\ WF_vars(PollTick)
    /\ WF_vars(\E o \in ProbeOutcomes : ProbeSettled(o))
    /\ WF_vars(\E i \in 1..MaxInFlight : GraceFired(i))
    /\ WF_vars(DeadlineFired)

(* ------------------------------ properties ----------------------------- *)

Terminal == status \in {"ready", "error"}

\* A step of a timer callback: a poll tick, the continuation of a poll tick
\* after its probe, a grace timeout or the deadline timeout.
TimerCallback ==
    \/ PollTick
    \/ \E o \in ProbeOutcomes : ProbeSettled(o)
    \/ \E i \in 1..MaxInFlight : GraceFired(i)
    \/ DeadlineFired

\* C1: once the state is Ready or Error, no step of a timer callback (poll
\* tick, probe result, deadline, grace) changes the state, the percent or the
\* error message.
C1_TerminalTimersInert ==
    [][(Terminal /\ TimerCallback) => UNCHANGED <<status, progress, errorMsg>>]_vars

\* C2: while a stage is active, a progress event changes the percent only to
\* a value at least the previous one or to exactly 100, and an event whose
\* rounded percent is smaller and not 100 leaves the percent unchanged.
C2_PercentMonotoneExcept100 ==
    [][\A p \in ProgressPayloads, k \in DownloadTypes :
          (currentDownloadType # "" /\ OnDownloadProgress(p, k)) =>
              /\ progress' >= progress \/ progress' = 100
              /\ (MathRound(p) < progress /\ MathRound(p) # 100)
                     => progress' = progress]_vars

\* A progress event of the active kind, outside the debounce window, carried a
\* smaller percent and the percent stayed where it was.
C2_Witness ==
    /\ lastOp = "progress_rejected"
    /\ currentDownloadType = "n8n-core"
    /\ progress = 60

\* C3: a progress or extraction-start event whose kind is not the current
\* activeKind changes neither the percent nor the state nor the debounce
\* timestamp, in every state and at every time.
C3_MismatchedKindDiscarded ==
    [][\A k \in DownloadTypes :
          (k # currentDownloadType
             /\ (OnExtractionStart(k)
                   \/ \E p \in ProgressPayloads : OnDownloadProgress(p, k)))
          => UNCHANGED <<progress, status, lastProgressAge>>]_vars

\* A runtime-tagged progress event arrived during the n8n-core stage, outside
\* the debounce window, and was dropped by the kind filter.
C3_Witness ==
    /\ lastOp = "progress_mismatch_runtime"
    /\ currentDownloadType = "n8n-core"
    /\ ~debounced

\* C4: if the first is_installed query returned true, the state is never
\* DownloadingCore or Extracting and setup_n8n is never invoked, whatever
\* events are delivered.
C4_InstalledSkipsDownload ==
    firstInstalled = "true" =>
        /\ status \notin {"downloading_n8n", "extracting"}
        /\ calls.setup_n8n = 0
        /\ verifyQueries = 0

\* The first query returned true and an n8n-core extraction-start event was
\* delivered afterwards.
C4_Witness ==
    /\ firstInstalled = "true"
    /\ lastOp = "extraction_mismatch_core"
    /\ status = "starting"

AllFalse(answers) == \A i \in DOMAIN answers : ~answers[i]

\* C5: Install Verification makes at most 5 queries; a query is made only if
\* every earlier answer was false and, after a false answer, only once 1000 ms
\* have passed since that answer; a true answer enters Starting in the same
\* step, without any wait.
C5_VerificationLoop ==
    /\ [](verifyQueries <= VERIFY_MAX_ATTEMPTS)
    /\ [][verifyQueries' > verifyQueries =>
            /\ AllFalse(verifyAnswers)
            /\ verifyAnswers # << >> => sinceFalse >= VERIFY_DELAY_MS]_vars
    /\ [][VerifyResolved(TRUE) =>
            status' = "starting" /\ sleepTimer' = << >>]_vars

\* The fifth query, made after four false answers and four waits, returned
\* true and the state became Starting.
C5_Witness ==
    /\ verifyQueries = VERIFY_MAX_ATTEMPTS
    /\ lastOp = "verify_true"
    /\ status = "starting"

FiveFalse == Len(verifyAnswers) = VERIFY_MAX_ATTEMPTS /\ AllFalse(verifyAnswers)

\* C6: if all 5 verification queries returned false, launch_n8n is never
\* invoked, the state is never Starting, neither the poll nor the deadline
\* timer is started, and once init has ended the state is Error with the
\* fixed verification message.
C6_VerificationFailure ==
    FiveFalse =>
        /\ status # "starting"
        /\ calls.launch_n8n = 0
        /\ ~checkTimer /\ pollTimer = << >> /\ deadlineTimer = << >>
        /\ pc \in {"verify_sleep", "done"}
        /\ pc = "done" => (status = "error" /\ errorMsg = VerifyFailedMsg)

C6_Witness ==
    /\ FiveFalse
    /\ lastOp = "verify_exhausted"
    /\ status = "error"

\* C7: the retry-exhaustion transition to Error happens only when retryCount
\* is exactly 5, at most once in an attempt, and not after the deadline
\* callback has already run.
C7_ExhaustionOnceAtFive ==
    /\ exhaustCount <= 1
    /\ lastOp = "probe_exhausted" => (retryCount = MAX_RETRIES /\ ~deadlineFired)

\* C8: whenever the state is Ready or Error, neither the poll interval nor the
\* deadline timeout is armed.
C8_NoTimerArmedWhenTerminal ==
    Terminal => (pollTimer = << >> /\ deadlineTimer = << >>)

\* C9: once launch_n8n has succeeded, if no probe ever reports a healthy
\* service then the state eventually is Error, and it is never Ready before a
\* probe has reported a healthy service.
C9_NeverHealthyEndsInError ==
    /\ [](checkTimer => <>(status = "error" \/ healthySeen))
    /\ [](~healthySeen => status # "ready")

\* Five probes failed, none was healthy, and the state is Error with the
\* retry-exhaustion message.
C9_Witness ==
    /\ lastOp = "probe_exhausted"
    /\ ~healthySeen
    /\ status = "error"
    /\ errorMsg = TimeoutMsg

\* C10: once setup_runtime has returned (by success or failure),
\* currentDownloadType is empty except while setup_n8n is awaited, and it is
\* empty again once setup_n8n has returned.
C10_KindClearedAfterReturn ==
    (calls.setup_runtime = 1 /\ pc \notin {"setup_runtime", "setup_n8n"})
        => currentDownloadType = ""

\* C11: once the retry-exhaustion message or the deadline message is shown,
\* and no probe has found the service healthy, the message is not replaced by
\* the other one.
C11_FirstErrorMessageKept ==
    [][(/\ errorMsg \in {TimeoutMsg, StartupTimeoutMsg}
        /\ errorMsg' \in {TimeoutMsg, StartupTimeoutMsg}
        /\ ~healthySeen')
       => errorMsg' = errorMsg]_vars

\* C12: after the cleanup has run, neither the poll interval nor the deadline
\* timeout is armed, and no step (listener, timer callback, continuation of
\* init) changes the state, the percent or the error message.
C12_TeardownSilences ==
    /\ [](disposed => (pollTimer = << >> /\ deadlineTimer = << >>))
    /\ [][(disposed /\ disposed') => UNCHANGED <<status, progress, errorMsg>>]_vars

\* C13: setup_runtime, setup_n8n and launch_n8n are each invoked at most once;
\* setup_n8n only after setup_runtime has returned, launch_n8n only after
\* both, and init never goes back to an earlier stage.
C13_CollaboratorsOnceInOrder ==
    /\ calls.setup_runtime <= 1 /\ calls.setup_n8n <= 1 /\ calls.launch_n8n <= 1
    /\ calls.setup_n8n = 1 =>
          /\ calls.setup_runtime = 1
          /\ pc \notin {"listen_progress", "listen_extraction", "setup_runtime"}
    /\ calls.launch_n8n = 1 =>
          /\ calls.setup_runtime = 1
          /\ pc \in {"launch_n8n", "done"}

\* All three were invoked, one after the other, and launch_n8n has resolved.
C13_Witness ==
    /\ lastOp = "launch_ok"
    /\ calls = [setup_runtime |-> 1, setup_n8n |-> 1, launch_n8n |-> 1]

ProbeReady == \E o \in ProbeOutcomes : ProbeSettled(o) /\ checkHealthViaProxy(o)

\* A probe of this attempt has been found ready.
FoundReady == graceTimers # << >> \/ readyEntered

\* C14: a probe found ready cancels the poll interval in the same step; from
\* then on no probe is started and retryCount is not incremented; Ready is
\* entered exactly 2000 ms after that probe, and never without a probe found
\* ready at least 2000 ms earlier.
C14_ReadyAfterGrace ==
    /\ [][ProbeReady => pollTimer' = << >>]_vars
    /\ [][(FoundReady /\ FoundReady')
            => (inflight' <= inflight /\ retryCount' = retryCount)]_vars
    /\ [][(status' = "ready" /\ status # "ready")
            => sinceHealthy >= GRACE_MS]_vars
    /\ []((FoundReady /\ sinceHealthy > GRACE_MS) => readyEntered)

Failed == errorMsg \in {SetupRuntimeErr, SetupN8nErr, LaunchErr}

\* C15: a rejection of setup_runtime, setup_n8n or launch_n8n sets Error with
\* the rejection's message in the same step; afterwards init has ended, no
\* collaborator is invoked and neither the poll nor the deadline timer is
\* started.
C15_FailureIsFatal ==
    /\ [][SetupRuntimeRejected
            => (status' = "error" /\ errorMsg' = SetupRuntimeErr)]_vars
    /\ [][SetupN8nRejected => (status' = "error" /\ errorMsg' = SetupN8nErr)]_vars
    /\ [][LaunchRejected => (status' = "error" /\ errorMsg' = LaunchErr)]_vars
    /\ [](Failed =>
            /\ pc = "done" /\ inflight = 0 /\ ~checkTimer
            /\ pollTimer = << >> /\ deadlineTimer = << >>)
    /\ [][(Failed /\ Failed') =>
            /\ calls' = calls /\ verifyQueries' = verifyQueries
            /\ firstInstalled' = firstInstalled /\ inflight' = inflight]_vars

C15_Witness ==
    /\ lastOp = "launch_failed"
    /\ status = "error"
    /\ errorMsg = LaunchErr
    /\ calls.setup_n8n = 1

\* C16: the step in which setup_n8n resolves sets the percent to 100, and the
\* percent is 100 in every later state of the attempt.
C16_PercentForcedTo100 ==
    /\ [][SetupN8nResolved => progress' = 100]_vars
    /\ [](verifyQueries >= 1 => progress = 100)

\* During polling, after a download, an n8n-core progress event was delivered
\* and the percent is still 100.
C16_Witness ==
    /\ verifyQueries >= 1
    /\ checkTimer
    /\ lastOp = "progress_mismatch_core"
    /\ progress = 100

\* C17: a progress event of the active kind is dropped by the debounce rule
\* exactly when less than 100 ms have passed since a percent was last applied;
\* so such an event with a percent not below the current one, arriving 100 ms
\* or more after the last applied one, is applied.
C17_DebounceSinceLastApplied ==
    [][\A p \in ProgressPayloads, k \in DownloadTypes :
          (k = currentDownloadType /\ OnDownloadProgress(p, k)) =>
              /\ (lastOp' = "progress_debounced")
                     <=> (lastAppliedAge < PROGRESS_DEBOUNCE_MS)
              /\ (lastAppliedAge >= PROGRESS_DEBOUNCE_MS /\ MathRound(p) >= progress)
                     => progress' = MathRound(p)]_vars

\* C18: an n8n-core extraction-start event during the n8n-core stage sets the
\* state to Extracting and leaves percent, currentDownloadType, retryCount and
\* the error message as they are; a runtime one during the runtime stage
\* changes nothing, so the state stays PreparingEngine while setup_runtime is
\* awaited.
C18_ExtractionStartFrame ==
    /\ [][(currentDownloadType = "n8n-core" /\ OnExtractionStart("n8n-core")) =>
            /\ status' = "extracting"
            /\ UNCHANGED <<progress, currentDownloadType, retryCount, errorMsg>>]_vars
    /\ [][(currentDownloadType = "runtime" /\ OnExtractionStart("runtime")) =>
            /\ UNCHANGED <<status, progress, currentDownloadType, retryCount,
                           errorMsg, lastProgressAge>>
            /\ pc = "setup_runtime" => status' = "preparing_engine"]_vars

\* The extraction of n8n-core started at 60 percent: the state is Extracting
\* and the percent was kept.
C18_Witness ==
    /\ lastOp = "extraction_core"
    /\ status = "extracting"
    /\ pc = "setup_n8n"
    /\ progress = 60

\* C19: the step that sets currentDownloadType to "runtime" or "n8n-core"
\* leaves the percent at 0, and DownloadingCore is entered with percent 0.
C19_StageStartsAtZero ==
    /\ [][(currentDownloadType' # currentDownloadType
             /\ currentDownloadType' \in DownloadTypes) => progress' = 0]_vars
    /\ [][(status' = "downloading_n8n" /\ status # "downloading_n8n")
             => progress' = 0]_vars

\* DownloadingCore was entered at the very moment a runtime progress event had
\* been handled (every payload is above 0), and the percent is 0.
C19_Witness ==
    /\ lastOp = "is_installed"
    /\ status = "downloading_n8n"
    /\ currentDownloadType = "n8n-core"
    /\ lastAppliedAge = 0
    /\ progress = 0

\* C20: at most one proxy_health_check is pending; while one is pending no
\* poll tick, deadline callback or grace callback runs; and no probe result is
\* processed once the poll interval is cancelled.
C20_PollCallbackAtomic ==
    /\ [](inflight <= 1)
    /\ [][inflight > 0 =>
            ~(PollTick \/ DeadlineFired \/ \E i \in 1..MaxInFlight : GraceFired(i))]_vars
    /\ [][(\E o \in ProbeOutcomes : ProbeSettled(o)) => pollTimer # << >>]_vars


\* An outcome of proxy_health_check that is a transport failure.
RejectedProbe == \E o \in ProbeOutcomes : o.rejected /\ ProbeSettled(o)

\* C21: a probe that raises a transport failure is handled like one that
\* returns an unhealthy string: retryCount goes up by exactly 1 and no grace
\* timeout is started; when that makes retryCount 5 the state becomes Error with
\* the retry-exhaustion message and the poll interval is cleared; while
\* retryCount stays below 5 the state and the message are left alone.
C21_TransportFailureIsUnhealthy ==
    [][RejectedProbe =>
         /\ retryCount' = retryCount + 1
         /\ graceTimers' = graceTimers
         /\ retryCount' = MAX_RETRIES =>
                /\ status' = "error"
                /\ errorMsg' = TimeoutMsg
                /\ pollTimer' = << >>
         /\ retryCount' < MAX_RETRIES =>
                UNCHANGED <<status, errorMsg, pollTimer>>]_vars

\* The fifth failure of the attempt is a transport failure.
C21_Witness ==
    /\ lastOp = "probe_exhausted"
    /\ lastProbe = "rejected"
    /\ retryCount = MAX_RETRIES
    /\ status = "error"
    /\ errorMsg = TimeoutMsg

\* C22: in every reachable state retryCount is between 0 and 5 inclusive,
\* whatever the order of probe results and timer callbacks, results that
\* arrive after the poll interval was cleared included.
C22_RetryCountInRange == retryCount \in 0..MAX_RETRIES

\* The most recent is_installed query of the attempt answered true.
lastInstalledAnswer ==
    IF verifyAnswers # << >> THEN verifyAnswers[Len(verifyAnswers)]
    ELSE firstInstalled = "true"

\* A proxy_health_check has been invoked in this attempt.
probeInvoked ==
    inflight > 0 \/ lastProbe # "none" \/ retryCount > 0 \/ graceTimers # << >>

\* C23: launch_n8n is invoked, and the state becomes Starting, only after
\* setup_runtime has resolved and with true as the most recent is_installed
\* answer of the attempt; no proxy_health_check is invoked before launch_n8n
\* has resolved.
C23_LaunchAndProbeOrder ==
    /\ [](calls.launch_n8n > 0 => setupRuntimeReturned /\ lastInstalledAnswer)
    /\ [][status' = "starting" /\ status # "starting" =>
            /\ setupRuntimeReturned
            /\ lastInstalledAnswer'
            /\ calls'.launch_n8n = calls.launch_n8n + 1]_vars
    /\ [](probeInvoked => launchReturned)
    /\ [][PollTick => launchReturned]_vars

\* After a download verified at the second query, launch_n8n has resolved and
\* the first probe is pending.
C23_Witness ==
    /\ lastOp = "poll_tick"
    /\ inflight = 1
    /\ launchReturned
    /\ setupRuntimeReturned
    /\ firstInstalled = "false"
    /\ verifyAnswers = <<FALSE, TRUE>>
    /\ calls.launch_n8n = 1

====
